---- MODULE Spec2Model ----
(***************************************************************************)
(* Model of the dotfiles synchronisation engine, src/sync.py.               *)
(*                                                                         *)
(* One process executes main(): it creates the prefix, loads the           *)
(* installation state, loads the manifest, walks the manifest entries in   *)
(* order (skip / remove stale destination / fetch / chmod / run-after /    *)
(* record), saves the state and prints the summary.  The process can be    *)
(* started again on the same machine (same manifest, same disk).           *)
(***************************************************************************)
EXTENDS Naturals, Integers, Sequences, FiniteSets, TLC

\* ---------------------------------------------------------------- bounds
MaxEntries == 2     \* longest manifest
MaxCmds == 2        \* longest run-after list
MaxRuns == 2        \* invocations of the program in one behaviour

\* ------------------------------------------------------- values and inputs
\* Manifest paths (entry["path"]) and one path that only an old state file holds.
Paths == {"~/.a", "~/.b"}
OldPath == "~/.old"

\* home_path(target_path, prefix) for the default prefix "~" expanded to /home/u:
\* a leading "~" is replaced by the base, a relative path is joined to the base,
\* an absolute path is kept.
home_path(target_path) ==
    CASE target_path = "~/.a" -> "/home/u/.a"
      [] target_path = ".a" -> "/home/u/.a"
      [] target_path = "~/.b" -> "/home/u/.b"
      [] target_path = "~/.old" -> "/home/u/.old"
      [] OTHER -> target_path

AbsPaths == {home_path(p) : p \in Paths}

\* What a destination can be on disk: nothing, a regular file, a directory
\* without .git, a directory holding a git working copy.
DestKinds == {"absent", "file", "dir", "git"}

\* The disk when the first run starts.  An entry reads and changes only its own
\* destination, so the destinations start alike and diverge as entries are handled.
InitialDisks == {[p \in AbsPaths |-> kind] : kind \in DestKinds}

GitSources == {"git", "git-with-submodules"}

\* The k-th command of a run-after list, as its words (command.split()).
Command(k) == <<"make", k>>

\* commands = entry["run-after"] for a list of n commands.
CommandList(n) == [k \in 1..n |-> Command(k)]

\* One manifest record.  has_run_after is '"run-after" in entry'; type and
\* dir_name are entry.get("type", "direct") and entry.get("dir_name"), "" for none.
Entry(path, source, idempotent, exec, has_run_after, n, autostart) ==
    [path |-> path, source |-> source, idempotent |-> idempotent, exec |-> exec,
     has_run_after |-> has_run_after, run_after |-> CommandList(n),
     autostart |-> autostart, type |-> "direct", dir_name |-> ""]

\* A record of an archive to download and unpack: "type": "tar...", "dir_name".
Archive(e, dir_name) == [e EXCEPT !.type = "tar.xz", !.dir_name = dir_name]

\* os.path.basename of a destination.
basename(target_path) ==
    CASE target_path = "~/.a" -> ".a"
      [] target_path = "~/.b" -> ".b"
      [] OTHER -> target_path

\* The manifest records the model draws manifests from.
EntryUniverse ==
    { Entry("~/.a", "repo", TRUE, TRUE, TRUE, MaxCmds, TRUE),
      Entry("~/.a", "git", FALSE, FALSE, FALSE, 0, FALSE),
      Entry("~/.b", "external", TRUE, FALSE, TRUE, 0, FALSE),
      Entry("~/.b", "git-with-submodules", TRUE, TRUE, FALSE, 0, TRUE),
      Entry("~/.b", "svn", FALSE, FALSE, TRUE, 1, FALSE) }

\* config.get("files", []): every manifest of at most MaxEntries records.
Manifests == UNION {[1..n -> EntryUniverse] : n \in 0..MaxEntries}

\* Records of archives: one whose member "pkg" is moved to the destination, one
\* unpacked in place.
ArchiveEntries ==
    { Archive(Entry("~/.b", "external", TRUE, FALSE, TRUE, 1, FALSE), "pkg"),
      Archive(Entry("~/.a", "external", FALSE, FALSE, TRUE, 1, FALSE), "") }

\* The manifests of the single-invocation specification.
ArchiveManifests ==
    UNION {[1..n -> EntryUniverse \cup ArchiveEntries] : n \in 0..MaxEntries}

\* Content of .dotfiles_sync_state.json: no file, a file that cannot be opened,
\* text that is no JSON, a JSON number, a JSON object (keys), a JSON array.
StateFile(kind, items) == [kind |-> kind, items |-> items]

InitialStateFiles ==
    { StateFile("missing", <<>>), StateFile("unreadable", <<>>),
      StateFile("garbage", <<>>), StateFile("number", <<>>),
      StateFile("object", <<"~/.a">>),
      StateFile("array", <<"~/.a", OldPath>>) }

\* The elements of a sequence: set(list).
Range(s) == {s[k] : k \in 1..Len(s)}

\* list(installed_state): the set's elements in some order.
Orderings(S) == {s \in [1..Cardinality(S) -> S] : Range(s) = S}

\* msg, the status text of an entry, by its parts.
Msg(text, task, total, command, output, suffix) ==
    [text |-> text, task |-> task, total |-> total, command |-> command,
     output |-> output, suffix |-> suffix]

NoMsg == Msg("", 0, 0, <<>>, <<>>, <<>>)

VARIABLES
    run,                    \* number of the current invocation
    pc,                     \* position of main()
    exit_code,              \* process exit status, -1 while running
    reinstall_forced,       \* args.reinstall
    files,                  \* the manifest's entries
    state_file,             \* content of the state file on disk
    fs,                     \* destination on disk, by absolute path
    installed_state,        \* the in-memory set
    idx,                    \* 1-based index of the entry being handled
    ok, msg,                \* outcome and message of the entry being handled
    i,                      \* commands of the current run-after list done
    ok_count, skipped_count,
    autostart_instructions,
    outcome,                \* per entry handled in this run: "skip", "ok", "fail"
    effects,                \* side effects of the entry being handled, in order
    fetched,                \* indexes of the entries a fetch was called for
    writes,                 \* writes of the state file in this run
    file_at_start,          \* state file content when this run started
    loaded_state,           \* installed_state right after the load
    prev_completed,         \* the previous invocation saved the state and returned
    tarfile,                \* what the current entry did to dest + ".tarfile"
    holds,                  \* what the fetch of the current entry left at the destination
    st_mode,                \* permission bits of the current entry's destination, -1: none
    cwd,                    \* working directory of the current entry's commands
    printed,                \* autostart notices printed, in order
    if_sourced              \* check_if_sourced of the last entry: its result

vars == <<run, pc, exit_code, reinstall_forced, files, state_file, fs,
          installed_state, idx, ok, msg, i, ok_count, skipped_count,
          autostart_instructions, outcome, effects, fetched, writes,
          file_at_start, loaded_state, prev_completed, tarfile, holds,
          st_mode, cwd, printed, if_sourced>>

total == Len(files)
entry == files[idx]

num_commands == Len(entry.run_after)

Event(op, arg) == [op |-> op, arg |-> arg]

\* ------------------------------------------------------------ pure helpers
\* Mutation of load_state: a saved array is read as no state at all.
load_state_forgets(f) ==
    IF f.kind \in {"missing", "garbage", "array", "object"}
    THEN [raised |-> FALSE, value |-> {}]
    ELSE [raised |-> TRUE, value |-> {}]

\* Mutation of load_state: only the first path of a saved array is read.
load_state_reads_first(f) ==
    CASE f.kind \in {"missing", "garbage"} -> [raised |-> FALSE, value |-> {}]
      [] f.kind \in {"array", "object"} ->
             [raised |-> FALSE,
              value |-> IF f.items = <<>> THEN {} ELSE {Head(f.items)}]
      [] OTHER -> [raised |-> TRUE, value |-> {}]

\* Lines 206-210: json.load and set() of the state file.  Only FileNotFoundError
\* and JSONDecodeError are caught: a file that cannot be opened raises
\* PermissionError and set(<number>) raises TypeError, both uncaught.
load_state(f) ==
    CASE f.kind = "missing" -> [raised |-> FALSE, value |-> {}]
      [] f.kind = "garbage" -> [raised |-> FALSE, value |-> {}]
      [] f.kind = "array" -> [raised |-> FALSE, value |-> Range(f.items)]
      [] f.kind = "object" -> [raised |-> FALSE, value |-> Range(f.items)]
      [] OTHER -> [raised |-> TRUE, value |-> {}]

\* Mutation of shouldSkip: the reinstall flag is read the wrong way round.
shouldSkip_flag_inverted(e, set, forceReinstall) ==
    forceReinstall /\ e.idempotent /\ e.path \in set

\* Mutation of shouldSkip: the idempotent flag is not consulted.
shouldSkip_ignores_idempotent(e, set, forceReinstall) ==
    (~forceReinstall) /\ e.path \in set

\* Line 231: the skip test.
shouldSkip(e, set, forceReinstall) ==
    (~forceReinstall) /\ e.idempotent /\ e.path \in set

\* Mutation of needs_removal: only a regular file is removed, a directory is kept.
needs_removal_keeps_directories(e, kind) ==
    e.source \notin GitSources /\ kind = "file"

\* Lines 240-245: the stale destination is removed unless the source is git-based.
needs_removal(e, kind) == e.source \notin GitSources /\ kind # "absent"

\* A fetch result: outcome, what the destination is afterwards, what was done.
\* tarfile is what became of dest + ".tarfile" and holds names the archive
\* member a destination directory was made of.
Fetched(succeeded, dest, did, text) ==
    [ok |-> succeeded, dest |-> dest, did |-> did, text |-> text,
     tarfile |-> "untouched", holds |-> ""]

\* Lines 112-123, called at 249-250.
fetch_raw_file(kind) ==
    { Fetched(TRUE, "file", <<Event("GET", 0)>>, "fetched from repo"),
      Fetched(FALSE, kind, <<Event("GET", 0)>>, "FAILED: err") }

\* Mutation of fetch_from_git: the destination is always deleted and cloned anew.
fetch_from_git_always_reclones(kind, submodules) ==
    LET done == IF submodules THEN "cloned url with submodules" ELSE "cloned url"
    IN  IF kind = "absent"
        THEN { Fetched(TRUE, "git", <<Event("git clone --depth 1", 0)>>, done),
               Fetched(FALSE, "absent", <<Event("git clone --depth 1", 0)>>,
                       "FAILED: err") }
        ELSE { Fetched(TRUE, "git",
                       <<Event("rmtree", 0), Event("git clone --depth 1", 0)>>, done),
               Fetched(FALSE, "absent",
                       <<Event("rmtree", 0), Event("git clone --depth 1", 0)>>,
                       "FAILED: err") }

\* Lines 125-149, called at 252-256.  An existing working copy is fetched and
\* hard-reset in place; anything else that exists is removed with rmtree (which
\* raises on a regular file) before the depth-1 clone.
fetch_from_git(kind, submodules) ==
    LET done == IF submodules THEN "cloned url with submodules" ELSE "cloned url"
        sub == IF submodules THEN <<Event("submodule update", 0)>> ELSE <<>>
    IN  CASE kind = "git" ->
               { Fetched(TRUE, "git",
                         <<Event("git fetch", 0), Event("git reset --hard", 0)>> \o sub,
                         done),
                 Fetched(FALSE, "git", <<Event("git fetch", 0)>>, "FAILED: err") }
          [] kind = "file" ->
               { Fetched(FALSE, "file", <<Event("rmtree raised", 0)>>, "FAILED: err") }
          [] kind = "dir" ->
               { Fetched(TRUE, "git",
                         <<Event("rmtree", 0), Event("git clone --depth 1", 0)>>, done),
                 Fetched(FALSE, "absent",
                         <<Event("rmtree", 0), Event("git clone --depth 1", 0)>>,
                         "FAILED: err"),
                 Fetched(FALSE, "dir", <<Event("rmtree raised", 0)>>, "FAILED: err") }
          [] OTHER ->
               { Fetched(TRUE, "git", <<Event("git clone --depth 1", 0)>>, done),
                 Fetched(FALSE, "absent", <<Event("git clone --depth 1", 0)>>,
                         "FAILED: err") }

\* What a downloaded body can be: no archive at all, or an archive with some
\* top-level members.
TopLevelNames == {"pkg", ".a"}
Archives ==
    {[valid |-> FALSE, members |-> {}]} \cup
    {[valid |-> TRUE, members |-> m] : m \in SUBSET TopLevelNames}

\* Lines 158-177: the body is written to dest + ".tarfile" and unpacked into the
\* destination's parent; the member dir_name is moved to the destination when
\* it is not there already, and only then is the temporary file removed.
untar(e, kind, archive) ==
    LET name == basename(e.path)
        wrote == <<Event("GET", 0), Event("write tarfile", 0)>>
        extracted == wrote \o <<Event("extractall", 0)>>
    IN  IF ~archive.valid
        THEN [Fetched(FALSE, kind, wrote \o <<Event("tarfile.open raised", 0)>>,
                      "FAILED: err") EXCEPT !.tarfile = "left"]
        ELSE IF e.dir_name # "" /\ e.dir_name # name
        THEN IF e.dir_name \in archive.members
             THEN [Fetched(TRUE, "dir",
                           extracted \o <<Event("move", 0), Event("remove tarfile", 0)>>,
                           "downloaded url")
                      EXCEPT !.tarfile = "removed", !.holds = e.dir_name]
             ELSE [Fetched(FALSE, "absent", extracted \o <<Event("move raised", 0)>>,
                           "FAILED: err") EXCEPT !.tarfile = "left"]
        ELSE [Fetched(TRUE, IF name \in archive.members THEN "dir" ELSE "absent",
                      extracted \o <<Event("remove tarfile", 0)>>, "downloaded url")
                 EXCEPT !.tarfile = "removed",
                        !.holds = IF name \in archive.members THEN name ELSE ""]

\* Lines 151-184, called at 258-259.
fetch_from_external(e, kind) ==
    IF e.type = "direct"
    THEN { Fetched(TRUE, "file", <<Event("GET", 0)>>, "downloaded url"),
           Fetched(FALSE, kind, <<Event("GET", 0)>>, "FAILED: err") }
    ELSE { Fetched(FALSE, kind, <<Event("GET", 0)>>, "FAILED: err") } \cup
         { untar(e, kind, archive) : archive \in Archives }

\* Lines 247-261: dispatch on the source kind.
dispatch(e, kind) ==
    CASE e.source = "repo" -> fetch_raw_file(kind)
      [] e.source = "git" -> fetch_from_git(kind, FALSE)
      [] e.source = "git-with-submodules" -> fetch_from_git(kind, TRUE)
      [] e.source = "external" -> fetch_from_external(e, kind)
      [] OTHER -> { Fetched(FALSE, kind, <<>>, "FAILED: Unknown source") }

\* stat.S_IEXEC, stat.S_IXGRP, stat.S_IXOTH (line 267).
S_IEXEC == 64
S_IXGRP == 8
S_IXOTH == 1

\* a | b on non-negative integers.
RECURSIVE BitOr(_, _)
BitOr(a, b) ==
    IF a = 0 THEN b
    ELSE IF b = 0 THEN a
    ELSE (IF a % 2 = 1 \/ b % 2 = 1 THEN 1 ELSE 0) + 2 * BitOr(a \div 2, b \div 2)

\* st.st_mode of a destination, by what it is: a regular file written under
\* umask 022 or 077 (0o100644, 0o100600), a directory (0o040755, 0o040700).
st_modes(kind) ==
    CASE kind = "file" -> {33188, 33152}
      [] kind \in {"dir", "git"} -> {16877, 16832}
      [] OTHER -> {-1}

\* Mutation of chmod_mode: the mode is set to rwxr-xr-x outright.
chmod_mode_fixed(mode) == 493

\* Line 267: the mode handed to os.chmod.
chmod_mode(mode) == BitOr(BitOr(BitOr(mode, S_IEXEC), S_IXGRP), S_IXOTH)

\* Where main() goes after the fetch (lines 264, 273, 332).
after_fetch(succeeded, e) ==
    IF succeeded /\ e.exec THEN "exec"
    ELSE IF succeeded /\ e.has_run_after THEN "post"
    ELSE "record"

\* Mutation of after_exec: the commands run although the chmod failed.
after_exec_ignores_failure(succeeded, e) ==
    IF e.has_run_after THEN "post" ELSE "record"

\* Where main() goes after the chmod step (lines 273, 332).
after_exec(succeeded, e) ==
    IF succeeded /\ e.has_run_after THEN "post" ELSE "record"

\* Lines 294-326: how one command can end.
CommandResults == {"ok", "CalledProcessError", "FileNotFoundError",
                   "TimeoutExpired", "Exception"}

\* os.path.dirname of a destination under the home directory.
dirname(abs_path) == "/home/u"

\* Lines 279-281: the working directory of the commands is the destination,
\* or its parent when os.path.isfile(abs_path).
command_cwd(abs_path, kind) ==
    IF kind = "file" THEN dirname(abs_path) ELSE abs_path

\* Line 294: subprocess.run raises FileNotFoundError when cwd does not exist.
run_results(kind) ==
    IF kind = "absent" THEN {"FileNotFoundError"} ELSE CommandResults

\* Lines 310-326: the message of a failed command, i+1 of num_commands.
task_failed(result, k, n, command) ==
    CASE result = "CalledProcessError" ->
             Msg("FAILED on task: exit", k, n, command, <<"stderr", "stdout">>, <<>>)
      [] result = "FileNotFoundError" ->
             Msg("FAILED on task: command not found", k, n, <<command[1]>>, <<>>, <<>>)
      [] result = "TimeoutExpired" ->
             Msg("FAILED on task: timed out", k, n, command, <<>>, <<>>)
      [] OTHER ->
             Msg("FAILED on task: encountered an error", k, n, command, <<>>, <<>>)

\* Line 100: the path as the notice shows it, the home directory written "~".
user_friendly_path(script_path) ==
    CASE script_path = "/home/u/.a" -> "~/.a"
      [] script_path = "/home/u/.b" -> "~/.b"
      [] OTHER -> script_path

\* Mutation of print_autostart_instructions: the notice is printed after the
\* loop over the queue, for its last element only.
print_autostart_instructions_last(queue) ==
    IF queue = <<>> THEN <<>> ELSE <<user_friendly_path(queue[Len(queue)])>>

\* Lines 353-356: one notice per element of the queue, in its order.
print_autostart_instructions(queue) ==
    [k \in 1..Len(queue) |-> user_friendly_path(queue[k])]

\* Mutation of record: a failed path is left in the set.
record_keeps_failed(path, succeeded, set) ==
    IF succeeded THEN set \cup {path} ELSE set

\* Lines 333-341: the state mutation.
record(path, succeeded, set) ==
    IF succeeded THEN set \cup {path} ELSE set \ {path}

\* ------------------------------------------------------------------ state
Init ==
    /\ run = 1
    /\ pc = "start"
    /\ exit_code = -1
    /\ reinstall_forced \in BOOLEAN
    /\ files \in Manifests
    /\ state_file \in InitialStateFiles
    /\ fs \in InitialDisks
    /\ installed_state = {}
    /\ idx = 0
    /\ ok = FALSE
    /\ msg = NoMsg
    /\ i = 0
    /\ ok_count = 0
    /\ skipped_count = 0
    /\ autostart_instructions = <<>>
    /\ outcome = <<>>
    /\ effects = <<>>
    /\ fetched = {}
    /\ writes = 0
    /\ file_at_start = state_file
    /\ loaded_state = {}
    /\ prev_completed = FALSE
    /\ tarfile = "untouched"
    /\ holds = ""
    /\ st_mode = -1
    /\ cwd = ""
    /\ printed = <<>>
    /\ if_sourced = "unchecked"

\* Lines 199-204: the prefix directory is created when missing; a failure exits 1.
MakePrefix ==
    /\ pc = "start"
    /\ \E created \in BOOLEAN :
         IF created
         THEN pc' = "load" /\ UNCHANGED exit_code
         ELSE pc' = "exited" /\ exit_code' = 1
    /\ UNCHANGED <<run, reinstall_forced, files, state_file, fs, installed_state,
                   idx, ok, msg, i, ok_count, skipped_count,
                   autostart_instructions, outcome, effects, fetched, writes,
                   file_at_start, loaded_state, prev_completed,
                   tarfile, holds, st_mode, cwd, printed, if_sourced>>

\* Lines 206-210: the installation state is loaded; an exception that is not
\* caught ends the process with a traceback (status 1).
LoadState ==
    /\ pc = "load"
    /\ LET r == load_state(state_file)
       IN  IF r.raised
           THEN /\ pc' = "aborted"
                /\ exit_code' = 1
                /\ UNCHANGED <<installed_state, loaded_state>>
           ELSE /\ pc' = "config"
                /\ installed_state' = r.value
                /\ loaded_state' = r.value
                /\ UNCHANGED exit_code
    /\ UNCHANGED <<run, reinstall_forced, files, state_file, fs, idx, ok, msg, i,
                   ok_count, skipped_count, autostart_instructions, outcome,
                   effects, fetched, writes, file_at_start, prev_completed,
                   tarfile, holds, st_mode, cwd, printed, if_sourced>>

\* Lines 212-225: the manifest is read; a failure exits 1 before any entry.
LoadConfig ==
    /\ pc = "config"
    /\ \E readable \in BOOLEAN :
         IF readable
         THEN /\ pc' = "loop"
              /\ idx' = 1
              /\ UNCHANGED exit_code
         ELSE /\ pc' = "exited"
              /\ exit_code' = 1
              /\ UNCHANGED idx
    /\ ok_count' = 0
    /\ skipped_count' = 0
    /\ autostart_instructions' = <<>>
    /\ UNCHANGED <<run, reinstall_forced, files, state_file, fs, installed_state,
                   ok, msg, i, outcome, effects, fetched, writes, file_at_start,
                   loaded_state, prev_completed,
                   tarfile, holds, st_mode, cwd, printed, if_sourced>>

\* Mutation of Skip: a skipped entry is not counted as successful.
Skip_not_counted ==
    /\ pc = "loop"
    /\ idx <= total
    /\ shouldSkip(entry, installed_state, reinstall_forced)
    /\ skipped_count' = skipped_count + 1
    /\ outcome' = Append(outcome, "skip")
    /\ idx' = idx + 1
    /\ if_sourced' = "unchecked"
    /\ UNCHANGED <<run, pc, exit_code, reinstall_forced, files, state_file, fs,
                   installed_state, ok, msg, i, ok_count, autostart_instructions,
                   effects, fetched, writes, file_at_start, loaded_state,
                   prev_completed, tarfile, holds, st_mode, cwd, printed>>

\* Lines 227-235: an idempotent entry already in the state is skipped.
Skip ==
    /\ pc = "loop"
    /\ idx <= total
    /\ shouldSkip(entry, installed_state, reinstall_forced)
    /\ skipped_count' = skipped_count + 1
    /\ ok_count' = ok_count + 1
    /\ outcome' = Append(outcome, "skip")
    /\ idx' = idx + 1
    /\ if_sourced' = "unchecked"
    /\ UNCHANGED <<run, pc, exit_code, reinstall_forced, files, state_file, fs,
                   installed_state, ok, msg, i, autostart_instructions, effects,
                   fetched, writes, file_at_start, loaded_state, prev_completed,
                   tarfile, holds, st_mode, cwd, printed>>

\* Lines 237-261: the stale destination is removed (an error there is not
\* caught and ends the process), then the entry is fetched by its source kind.
Fetch ==
    /\ pc = "loop"
    /\ idx <= total
    /\ ~shouldSkip(entry, installed_state, reinstall_forced)
    /\ LET abs_path == home_path(entry.path)
           kind == fs[abs_path]
       IN  \/ /\ needs_removal(entry, kind)
              /\ pc' = "aborted"
              /\ exit_code' = 1
              /\ effects' = <<Event("remove raised", 0)>>
              /\ UNCHANGED <<fs, ok, msg, fetched, tarfile, holds, st_mode>>
           \/ LET removed == needs_removal(entry, kind)
                  cleared == IF removed THEN "absent" ELSE kind
              IN  \E r \in dispatch(entry, cleared) :
                    /\ fs' = [fs EXCEPT ![abs_path] = r.dest]
                    /\ ok' = r.ok
                    /\ msg' = Msg(r.text, 0, 0, <<>>, <<>>, <<>>)
                    /\ effects' = (IF removed THEN <<Event("remove", 0)>> ELSE <<>>)
                                    \o r.did
                    /\ fetched' = IF r.did = <<>> THEN fetched ELSE fetched \cup {idx}
                    /\ pc' = after_fetch(r.ok, entry)
                    /\ tarfile' = r.tarfile
                    /\ holds' = r.holds
                    /\ st_mode' \in IF r.ok /\ entry.exec THEN st_modes(r.dest)
                                     ELSE {-1}
                    /\ UNCHANGED exit_code
    /\ i' = 0
    /\ UNCHANGED <<run, reinstall_forced, files, state_file, installed_state, idx,
                   ok_count, skipped_count, autostart_instructions, outcome,
                   writes, file_at_start, loaded_state, prev_completed,
                   cwd, printed, if_sourced>>

\* Mutation of MakeExecutable: the chmod error is not caught and ends the process.
MakeExecutable_uncaught ==
    /\ pc = "exec"
    /\ \E changed \in (IF st_mode = -1 THEN {FALSE} ELSE BOOLEAN) :
         IF changed
         THEN /\ st_mode' = chmod_mode(st_mode)
              /\ msg' = [msg EXCEPT !.suffix = Append(@, "(executable)")]
              /\ effects' = Append(effects, Event("chmod", 0))
              /\ pc' = after_exec(TRUE, entry)
              /\ UNCHANGED <<ok, exit_code>>
         ELSE /\ effects' = Append(effects, Event("chmod raised", 0))
              /\ pc' = "aborted"
              /\ exit_code' = 1
              /\ UNCHANGED <<ok, msg, st_mode>>
    /\ UNCHANGED <<run, reinstall_forced, files, state_file, fs,
                   installed_state, idx, i, ok_count, skipped_count,
                   autostart_instructions, outcome, fetched, writes,
                   file_at_start, loaded_state, prev_completed,
                   tarfile, holds, cwd, printed, if_sourced>>

\* Lines 263-270: the execute bits are added to the mode os.stat returns; a
\* failure (os.stat raises when nothing is at the destination) fails the entry.
MakeExecutable ==
    /\ pc = "exec"
    /\ \E changed \in (IF st_mode = -1 THEN {FALSE} ELSE BOOLEAN) :
         IF changed
         THEN /\ st_mode' = chmod_mode(st_mode)
              /\ msg' = [msg EXCEPT !.suffix = Append(@, "(executable)")]
              /\ effects' = Append(effects, Event("chmod", 0))
              /\ pc' = after_exec(TRUE, entry)
              /\ UNCHANGED ok
         ELSE /\ ok' = FALSE
              /\ msg' = Msg("FAILED: chmod failed", 0, 0, <<>>, <<>>, <<>>)
              /\ effects' = Append(effects, Event("chmod raised", 0))
              /\ pc' = after_exec(FALSE, entry)
              /\ UNCHANGED st_mode
    /\ UNCHANGED <<run, exit_code, reinstall_forced, files, state_file, fs,
                   installed_state, idx, i, ok_count, skipped_count,
                   autostart_instructions, outcome, fetched, writes,
                   file_at_start, loaded_state, prev_completed,
                   tarfile, holds, cwd, printed, if_sourced>>

\* Mutation of RunCommand: a failed command does not end the list.
RunCommand_no_break ==
    /\ pc = "post"
    /\ i < num_commands
    /\ cwd' = command_cwd(home_path(entry.path), fs[home_path(entry.path)])
    /\ \E result \in run_results(fs[home_path(entry.path)]) :
         /\ effects' = Append(effects, Event("run", i + 1))
         /\ i' = i + 1
         /\ IF result = "ok"
            THEN /\ msg' = [msg EXCEPT !.suffix = Append(@, "(ran: command)")]
                 /\ UNCHANGED ok
            ELSE /\ ok' = FALSE
                 /\ msg' = task_failed(result, i + 1, num_commands,
                                       entry.run_after[i + 1])
    /\ UNCHANGED <<run, pc, exit_code, reinstall_forced, files, state_file, fs,
                   installed_state, idx, ok_count, skipped_count,
                   autostart_instructions, outcome, fetched, writes,
                   file_at_start, loaded_state, prev_completed,
                   tarfile, holds, st_mode, printed, if_sourced>>

\* Lines 291-326: command i+1 of the run-after list runs; the first command
\* that fails ends the list and fails the entry.
RunCommand ==
    /\ pc = "post"
    /\ i < num_commands
    /\ cwd' = command_cwd(home_path(entry.path), fs[home_path(entry.path)])
    /\ \E result \in run_results(fs[home_path(entry.path)]) :
         /\ effects' = Append(effects, Event("run", i + 1))
         /\ IF result = "ok"
            THEN /\ msg' = [msg EXCEPT !.suffix = Append(@, "(ran: command)")]
                 /\ i' = i + 1
                 /\ UNCHANGED <<ok, pc>>
            ELSE /\ ok' = FALSE
                 /\ msg' = task_failed(result, i + 1, num_commands,
                                       entry.run_after[i + 1])
                 /\ pc' = "record"
                 /\ UNCHANGED i
    /\ UNCHANGED <<run, exit_code, reinstall_forced, files, state_file, fs,
                   installed_state, idx, ok_count, skipped_count,
                   autostart_instructions, outcome, fetched, writes,
                   file_at_start, loaded_state, prev_completed,
                   tarfile, holds, st_mode, printed, if_sourced>>

\* Lines 291, 328-329: the list is exhausted with every command successful.
RunAfterDone ==
    /\ pc = "post"
    /\ i = num_commands
    /\ msg' = IF ok THEN Msg("all tasks completed", 0, num_commands, <<>>, <<>>, <<>>)
               ELSE msg
    /\ pc' = "record"
    /\ UNCHANGED <<run, exit_code, reinstall_forced, files, state_file, fs,
                   installed_state, idx, ok, i, ok_count, skipped_count,
                   autostart_instructions, outcome, effects, fetched, writes,
                   file_at_start, loaded_state, prev_completed,
                   tarfile, holds, st_mode, cwd, printed, if_sourced>>

\* Mutation of RecordState: the state file is rewritten after every entry.
RecordState_saves_each_entry ==
    /\ pc = "record"
    /\ installed_state' = record(entry.path, ok, installed_state)
    /\ ok_count' = IF ok THEN ok_count + 1 ELSE ok_count
    /\ outcome' = Append(outcome, IF ok THEN "ok" ELSE "fail")
    /\ IF ok /\ entry.autostart
       THEN \E sourced \in BOOLEAN :
              /\ if_sourced' = IF sourced THEN "sourced" ELSE "unsourced"
              /\ autostart_instructions' =
                    IF sourced THEN autostart_instructions
                    ELSE Append(autostart_instructions, home_path(entry.path))
       ELSE /\ if_sourced' = "unchecked"
            /\ UNCHANGED autostart_instructions
    /\ idx' = idx + 1
    /\ pc' = "loop"
    /\ effects' = <<>>
    /\ \E listed \in Orderings(installed_state') :
         state_file' = StateFile("array", listed)
    /\ writes' = writes + 1
    /\ ok' = FALSE
    /\ msg' = NoMsg
    /\ i' = 0
    /\ holds' = ""
    /\ tarfile' = "untouched"
    /\ st_mode' = -1
    /\ cwd' = ""
    /\ UNCHANGED <<run, exit_code, reinstall_forced, files, fs,
                   skipped_count, fetched, file_at_start,
                   loaded_state, prev_completed, printed>>

\* Lines 332-341: the outcome is reported and recorded; a successful autostart
\* entry that no profile sources is queued.  ok, msg and the command index are
\* assigned anew before the next entry reads them: they are cleared here.
RecordState ==
    /\ pc = "record"
    /\ installed_state' = record(entry.path, ok, installed_state)
    /\ ok_count' = IF ok THEN ok_count + 1 ELSE ok_count
    /\ outcome' = Append(outcome, IF ok THEN "ok" ELSE "fail")
    /\ IF ok /\ entry.autostart
       THEN \E sourced \in BOOLEAN :
              /\ if_sourced' = IF sourced THEN "sourced" ELSE "unsourced"
              /\ autostart_instructions' =
                    IF sourced THEN autostart_instructions
                    ELSE Append(autostart_instructions, home_path(entry.path))
       ELSE /\ if_sourced' = "unchecked"
            /\ UNCHANGED autostart_instructions
    /\ idx' = idx + 1
    /\ pc' = "loop"
    /\ effects' = <<>>
    /\ ok' = FALSE
    /\ msg' = NoMsg
    /\ i' = 0
    /\ holds' = ""
    /\ tarfile' = "untouched"
    /\ st_mode' = -1
    /\ cwd' = ""
    /\ UNCHANGED <<run, exit_code, reinstall_forced, files, state_file, fs,
                   skipped_count, fetched, writes, file_at_start,
                   loaded_state, prev_completed, printed>>

\* Mutation of SaveState: the set is merged into the old content, not replaced.
SaveState_merges_old ==
    /\ pc = "loop"
    /\ idx > total
    /\ \/ /\ \E listed \in Orderings(installed_state \cup loaded_state) :
                state_file' = StateFile("array", listed)
          /\ writes' = writes + 1
       \/ UNCHANGED <<state_file, writes>>
       \/ /\ state_file' = StateFile("garbage", <<>>)
          /\ writes' = writes + 1
    /\ pc' = "summary"
    /\ UNCHANGED <<run, exit_code, reinstall_forced, files, fs, installed_state,
                   idx, ok, msg, i, ok_count, skipped_count,
                   autostart_instructions, outcome, effects, fetched,
                   file_at_start, loaded_state, prev_completed,
                   tarfile, holds, st_mode, cwd, printed, if_sourced>>

\* Lines 343-348: the whole set is written over the state file.  A failure is
\* only warned about: the file is left as it was when it cannot be opened, and
\* is left truncated when the write fails after open(state_file, "w").
SaveState ==
    /\ pc = "loop"
    /\ idx > total
    /\ \/ /\ \E listed \in Orderings(installed_state) :
                state_file' = StateFile("array", listed)
          /\ writes' = writes + 1
       \/ UNCHANGED <<state_file, writes>>
       \/ /\ state_file' = StateFile("garbage", <<>>)
          /\ writes' = writes + 1
    /\ pc' = "summary"
    /\ UNCHANGED <<run, exit_code, reinstall_forced, files, fs, installed_state,
                   idx, ok, msg, i, ok_count, skipped_count,
                   autostart_instructions, outcome, effects, fetched,
                   file_at_start, loaded_state, prev_completed,
                   tarfile, holds, st_mode, cwd, printed, if_sourced>>

\* Mutation of Summary: the exit status tells whether an entry failed.
Summary_status_counts_failures ==
    /\ pc = "summary"
    /\ pc' = "done"
    /\ exit_code' = IF ok_count < total THEN 1 ELSE 0
    /\ printed' = print_autostart_instructions(autostart_instructions)
    /\ UNCHANGED <<run, reinstall_forced, files, state_file, fs, installed_state,
                   idx, ok, msg, i, ok_count, skipped_count,
                   autostart_instructions, outcome, effects, fetched, writes,
                   file_at_start, loaded_state, prev_completed,
                   tarfile, holds, st_mode, cwd, if_sourced>>

\* Lines 350-356: the summary and the queued autostart notices are printed and
\* main() returns.
Summary ==
    /\ pc = "summary"
    /\ pc' = "done"
    /\ exit_code' = 0
    /\ printed' = print_autostart_instructions(autostart_instructions)
    /\ UNCHANGED <<run, reinstall_forced, files, state_file, fs, installed_state,
                   idx, ok, msg, i, ok_count, skipped_count,
                   autostart_instructions, outcome, effects, fetched, writes,
                   file_at_start, loaded_state, prev_completed,
                   tarfile, holds, st_mode, cwd, if_sourced>>

\* The program is started again: same manifest, same disk, fresh process.
NextRun ==
    /\ pc \in {"done", "aborted", "exited"}
    /\ run < MaxRuns
    /\ run' = run + 1
    /\ pc' = "start"
    /\ exit_code' = -1
    /\ reinstall_forced' \in BOOLEAN
    /\ installed_state' = {}
    /\ idx' = 0
    /\ ok' = FALSE
    /\ msg' = NoMsg
    /\ i' = 0
    /\ ok_count' = 0
    /\ skipped_count' = 0
    /\ autostart_instructions' = <<>>
    /\ outcome' = <<>>
    /\ effects' = <<>>
    /\ fetched' = {}
    /\ writes' = 0
    /\ file_at_start' = state_file
    /\ loaded_state' = {}
    /\ prev_completed' = (pc = "done" /\ writes = 1 /\ state_file.kind = "array")
    /\ holds' = ""
    /\ st_mode' = -1
    /\ cwd' = ""
    /\ printed' = <<>>
    /\ if_sourced' = "unchecked"
    /\ tarfile' = "untouched"
    /\ UNCHANGED <<files, state_file, fs>>

\* The state a single invocation starts in: Init with archives in the manifest
\* and one more state file, which holds both manifest paths.
InitOnce ==
    /\ run = 1
    /\ pc = "start"
    /\ exit_code = -1
    /\ reinstall_forced \in BOOLEAN
    /\ files \in ArchiveManifests
    /\ state_file \in InitialStateFiles \cup {StateFile("array", <<"~/.b", "~/.a">>)}
    /\ fs \in InitialDisks
    /\ installed_state = {}
    /\ idx = 0
    /\ ok = FALSE
    /\ msg = NoMsg
    /\ i = 0
    /\ ok_count = 0
    /\ skipped_count = 0
    /\ autostart_instructions = <<>>
    /\ outcome = <<>>
    /\ effects = <<>>
    /\ fetched = {}
    /\ writes = 0
    /\ file_at_start = state_file
    /\ loaded_state = {}
    /\ prev_completed = FALSE
    /\ tarfile = "untouched"
    /\ holds = ""
    /\ st_mode = -1
    /\ cwd = ""
    /\ printed = <<>>
    /\ if_sourced = "unchecked"

Next ==
    \/ MakePrefix
    \/ LoadState
    \/ LoadConfig
    \/ Skip
    \/ Fetch
    \/ MakeExecutable
    \/ RunCommand
    \/ RunAfterDone
    \/ RecordState
    \/ SaveState
    \/ Summary
    \/ NextRun

Spec == Init /\ [][Next]_vars

\* One invocation of main(), from the start of the process to its end.
NextOnce ==
    \/ MakePrefix
    \/ LoadState
    \/ LoadConfig
    \/ Skip
    \/ Fetch
    \/ MakeExecutable
    \/ RunCommand
    \/ RunAfterDone
    \/ RecordState
    \/ SaveState
    \/ Summary

SpecOnce == InitOnce /\ [][NextOnce]_vars

\* ----------------------------------------------------------- properties
\* Positions of main() inside the handling of one entry.
InEntry == pc \in {"exec", "post", "record"}

\* Indexes (of the entries handled so far) whose path is p and that were not skipped.
Processed(p) ==
    {k \in 1..Len(outcome) : files[k].path = p /\ outcome[k] # "skip"}

Last(S) == CHOOSE k \in S : \A j \in S : j <= k

\* The commands run for the current entry, in the order they ran.
Ran == SelectSeq(effects, LAMBDA ev : ev.op = "run")

\* C1: once a non-skipped entry has been processed its path is in the in-memory
\* state exactly when that processing ended in success, membership of a path
\* follows the most recent processing of that path, and an entry reaches the
\* record step successful only after a fetch, the chmod when exec is set and
\* every run-after command.
C1_StateFollowsLastOutcome ==
    /\ \A p \in Paths :
         Processed(p) # {} =>
            (p \in installed_state <=> outcome[Last(Processed(p))] = "ok")
    /\ (pc = "record" /\ ok) =>
         /\ idx \in fetched
         /\ entry.exec => Event("chmod", 0) \in Range(effects)
         /\ entry.has_run_after =>
              Ran = [k \in 1..num_commands |-> Event("run", k)]

\* Two entries share a path: the first succeeded, the second failed, and the
\* path has left the state.
C1_Witness ==
    /\ Len(outcome) = 2
    /\ files[1].path = files[2].path
    /\ outcome = <<"ok", "fail">>
    /\ files[1].path \notin installed_state

\* A step that skips the entry at idx with no side effect at all.
SkippedWithoutEffect ==
    /\ UNCHANGED <<fs, installed_state, state_file, effects, fetched,
                   autostart_instructions, writes>>
    /\ ok_count' = ok_count + 1
    /\ outcome' = Append(outcome, "skip")
    /\ idx' = idx + 1

\* C2 as stated: an idempotent entry whose path is in the LOADED state is
\* skipped without side effect and counted successful when reinstall is not
\* forced.
C2_AsStated ==
    [][ ( /\ pc = "loop" /\ idx >= 1 /\ idx <= total
          /\ ~reinstall_forced
          /\ entry.idempotent
          /\ entry.path \in loaded_state )
        => SkippedWithoutEffect ]_vars

\* C2 amended: an idempotent entry whose path is in the in-memory state when the
\* entry is reached is skipped without side effect (no removal, fetch, chmod,
\* command, autostart check or state mutation) and counted successful when
\* reinstall is not forced.
C2_SkipHasNoEffect ==
    [][ ( /\ pc = "loop" /\ idx >= 1 /\ idx <= total
          /\ ~reinstall_forced
          /\ entry.idempotent
          /\ entry.path \in installed_state )
        => SkippedWithoutEffect ]_vars

\* An idempotent entry was skipped although something exists at its destination.
C2_Witness ==
    /\ pc = "loop"
    /\ Len(outcome) >= 1
    /\ outcome[Len(outcome)] = "skip"
    /\ files[Len(outcome)].idempotent
    /\ fs[home_path(files[Len(outcome)].path)] # "absent"
    /\ ok_count = Len(outcome)

\* C3: an entry is skipped if and only if reinstall is not forced, the entry is
\* idempotent and its path is in the state set; with forced reinstall nothing
\* is skipped, and a non-idempotent entry is never skipped.
C3_SkipIff ==
    /\ [][ (pc = "loop" /\ idx >= 1 /\ idx <= total) =>
             ( (outcome' = Append(outcome, "skip"))
               <=> ( /\ ~reinstall_forced
                     /\ entry.idempotent
                     /\ entry.path \in installed_state ) ) ]_vars
    /\ [](reinstall_forced => "skip" \notin Range(outcome))
    /\ [](\A k \in 1..Len(outcome) : outcome[k] = "skip" => files[k].idempotent)

\* A non-idempotent entry whose path was in the loaded state has been processed
\* again, without forced reinstall.
C3_Witness ==
    /\ ~reinstall_forced
    /\ Len(outcome) >= 1
    /\ ~files[1].idempotent
    /\ files[1].path \in loaded_state
    /\ outcome[1] \in {"ok", "fail"}

TaskFailed == pc = "record" /\ msg.task > 0

FailedBy(texts) == TaskFailed /\ msg.text \in texts

\* Commands 1..K ran in the declared order and none after K; the entry failed;
\* the message gives K out of N.
StoppedAtFailure ==
    /\ ~ok
    /\ msg.task \in 1..num_commands
    /\ msg.total = num_commands
    /\ Ran = [k \in 1..msg.task |-> Event("run", k)]

Persisted == Range(state_file.items)

\* This run has returned after writing the state file successfully.
Saved == pc = "done" /\ writes = 1 /\ state_file.kind = "array"

\* An earlier entry of this run with the path of entry k has failed.
FailedEarlier(k) ==
    \E j \in 1..Len(outcome) : j < k /\ files[j].path = files[k].path
                                /\ outcome[j] = "fail"

\* C6 as stated: in a run that follows a completed run on the same manifest and
\* does not force reinstall, no fetch is called for any idempotent entry.
C6_AsStated ==
    (run >= 2 /\ prev_completed /\ ~reinstall_forced)
    => \A k \in fetched : ~files[k].idempotent

\* C6 amended: in a run that follows a completed run on the same manifest and
\* does not force reinstall, no fetch is called for an idempotent entry whose
\* path the previous run saved in the state, unless an earlier entry of this
\* run with the same path has failed.
C6_SecondRunFetchesNothingSaved ==
    (run >= 2 /\ prev_completed /\ ~reinstall_forced)
    => \A k \in fetched :
         ~( /\ files[k].idempotent
            /\ files[k].path \in Range(file_at_start.items)
            /\ ~FailedEarlier(k) )

\* A second run has returned having skipped an idempotent entry that the first
\* run saved, with no fetch for it.
C6_Witness ==
    /\ run = 2
    /\ prev_completed
    /\ ~reinstall_forced
    /\ pc = "done"
    /\ \E k \in 1..total :
         /\ files[k].idempotent
         /\ files[k].path \in Range(file_at_start.items)
         /\ outcome[k] = "skip"
         /\ k \notin fetched

\* Entry k ended this run successful: installed, or skipped as already installed.
EndedSuccessful(k) == outcome[k] \in {"ok", "skip"}

\* The most recent processing of path p in this run failed.
LastFailed(p) ==
    Processed(p) # {} /\ outcome[Last(Processed(p))] = "fail"

\* C7 as stated: after a completed run every persisted path is the path of a
\* manifest entry that this run ended successful, and no path absent from the
\* manifest or of an entry that failed in this run is persisted.
C7_AsStated ==
    Saved
    => \A p \in Persisted :
         /\ \E k \in 1..total : files[k].path = p /\ EndedSuccessful(k)
         /\ ~\E k \in 1..total : files[k].path = p /\ outcome[k] = "fail"

\* C7 amended: after a completed run that saved the state, every persisted path
\* was in the loaded state or is the path of a manifest entry that this run
\* ended successful, and no path whose most recent processing in this run
\* failed is persisted.
C7_PersistedIsLoadedOrSuccessful ==
    Saved
    => /\ \A p \in Persisted :
            \/ p \in loaded_state
            \/ \E k \in 1..total : files[k].path = p /\ EndedSuccessful(k)
       /\ \A p \in Paths : LastFailed(p) => p \notin Persisted
       /\ \A p \in loaded_state : Processed(p) = {} => p \in Persisted

\* A run has saved a state that keeps a path of an earlier manifest, holds the
\* path of an entry installed now and lacks the path of an entry that failed.
C7_Witness ==
    /\ Saved
    /\ OldPath \in Persisted
    /\ \E k \in 1..total : outcome[k] = "ok" /\ files[k].path \in Persisted
                           /\ files[k].path \notin loaded_state
    /\ \E k \in 1..total : outcome[k] = "fail" /\ files[k].path \notin Persisted
                           /\ files[k].path \in loaded_state

\* C8: the state file is written at most once per run and only after every
\* entry has been handled; a run that stops before the save step leaves the
\* file with the content it had when the run started.
C8_SavedOnceAtEnd ==
    /\ writes <= 1
    /\ writes = 1 => (pc \in {"summary", "done"} /\ Len(outcome) = total)
    /\ writes = 0 => state_file = file_at_start
    /\ pc \in {"aborted", "exited"} => state_file = file_at_start

\* A run aborted inside an entry after the in-memory state had changed.
C8_Witness ==
    /\ pc = "aborted"
    /\ idx = 2
    /\ installed_state # loaded_state
    /\ file_at_start.kind = "array"
    /\ state_file = file_at_start

\* C9: the load is never fatal; a state file that is missing,
\* unreadable or holds no list of path strings loads as the empty set and the
\* run goes on to the manifest.
C9_LoadNeverFatal ==
    (file_at_start.kind # "array" /\ pc \notin {"start", "load", "exited"})
    => /\ ~(pc = "aborted" /\ idx = 0)
       /\ loaded_state = {}

\* The step that handles a git-based entry: from the loop into the entry.
GitFetchStep ==
    /\ pc = "loop" /\ idx >= 1 /\ idx <= total
    /\ entry.source \in GitSources
    /\ pc' \in {"exec", "post", "record"}

\* C10 as stated: handling a git-based entry never deletes a destination that
\* existed before, and a clone is made only when the destination is fresh.
C10_AsStated ==
    [][ GitFetchStep =>
          /\ Event("rmtree", 0) \notin Range(effects')
          /\ Event("git clone --depth 1", 0) \in Range(effects') =>
               fs[home_path(entry.path)] = "absent"
          /\ fs[home_path(entry.path)] = "git" =>
               (fs'[home_path(entry.path)] = "git" /\
                (ok' => Event("git reset --hard", 0) \in Range(effects'))) ]_vars

\* C10 amended: handling a git-based entry never deletes a destination that
\* holds a working copy: it is fetched and hard-reset to origin/<branch> in
\* place; a depth-1 clone is made only when the destination is absent or is a
\* directory without a working copy, which is deleted first (and stays deleted
\* when the clone fails); a regular file at the destination fails the entry and
\* is left in place.
C10_WorkingCopyUpdatedInPlace ==
    [][ GitFetchStep =>
          LET before == fs[home_path(entry.path)]
              after == fs'[home_path(entry.path)]
              did == Range(effects')
          IN  /\ before = "git" =>
                   /\ after = "git"
                   /\ Event("rmtree", 0) \notin did
                   /\ Event("git clone --depth 1", 0) \notin did
                   /\ Event("git fetch", 0) \in did
                   /\ ok' => Event("git reset --hard", 0) \in did
              /\ Event("git clone --depth 1", 0) \in did =>
                   /\ before \in {"absent", "dir"}
                   /\ after = (IF ok' THEN "git" ELSE "absent")
              /\ Event("rmtree", 0) \in did => before = "dir"
              /\ before = "file" => (after = "file" /\ ~ok')
              /\ ok' => after = "git" ]_vars

\* A git-based entry found a working copy and was updated in place.
C10_Witness ==
    /\ InEntry
    /\ entry.source \in GitSources
    /\ ok
    /\ Event("git reset --hard", 0) \in Range(effects)
    /\ Event("git clone --depth 1", 0) \notin Range(effects)
    /\ fs[home_path(entry.path)] = "git"

\* ------------------------------------------------------------- C11
\* The entry being recorded is an archive download with dir_name set.
ArchiveWithDirName ==
    /\ pc = "record"
    /\ entry.source = "external"
    /\ entry.type # "direct"
    /\ entry.dir_name # ""

\* C11: after an external tar entry with dir_name set has been processed, the
\* destination (of an entry that succeeded) holds exactly what the archive nests
\* under dir_name, and no temporary archive, destination + ".tarfile", is left
\* on disk.
C11_ArchiveUnpackedCleanly ==
    ArchiveWithDirName =>
        /\ ok => (fs[home_path(entry.path)] = "dir" /\ holds = entry.dir_name)
        /\ tarfile # "left"

\* ------------------------------------------------------------- C12
\* C12 as stated: the exit status is non-zero only when the configuration could
\* not be loaded, and then no entry has been processed.
C12_AsStated ==
    [][ exit_code' \notin {-1, 0} =>
          (pc = "config" /\ outcome' = <<>> /\ fetched' = {}) ]_vars

\* C12: the exit status is non-zero only when the run ends before the summary:
\* the prefix directory cannot be created or the configuration cannot be
\* loaded, both before any entry is processed, or an exception that main() does
\* not catch ends the process.  A run that reaches the summary exits with
\* status zero whatever the number of failed entries, and the save of the state
\* changes neither the exit status nor any entry's outcome.
C12_StatusTellsTheRunEnded ==
    [][ /\ exit_code' \notin {-1, 0} =>
             \/ /\ pc \in {"start", "config"}
                /\ pc' = "exited"
                /\ outcome' = <<>>
                /\ fetched' = {}
             \/ pc' = "aborted"
        /\ pc' = "done" => exit_code' = 0
        /\ (pc = "loop" /\ idx > total) =>
             /\ exit_code' = exit_code
             /\ outcome' = outcome
             /\ ok_count' = ok_count
             /\ installed_state' = installed_state ]_vars

\* A run with a failed entry and a failed save of the state has ended with status 0.
C12_Witness ==
    /\ pc = "done"
    /\ exit_code = 0
    /\ "fail" \in Range(outcome)
    /\ writes = 0

\* ------------------------------------------------------------- C13
\* C13: the state round-trips: loading the file a save has written yields the
\* set that was saved, whatever the order of the written list, and loading
\* when no state file exists yields the empty set.
C13_StateRoundTrip ==
    /\ (pc \in {"summary", "done"} /\ writes = 1 /\ state_file.kind = "array") =>
          /\ ~load_state(state_file).raised
          /\ load_state(state_file).value = installed_state
    /\ (pc = "config" /\ file_at_start.kind = "missing") => installed_state = {}

\* A set of two paths has been saved, in either order.
C13_Witness ==
    /\ Saved
    /\ Cardinality(installed_state) = 2
    /\ state_file.items[1] = "~/.b"

\* ------------------------------------------------------------- C14
\* Bit b of a mode.
Bit(mode, b) == (mode \div (2 ^ b)) % 2 = 1

\* The owner, group and other execute bits.
ExecuteBits == {6, 3, 0}

\* C14: for an entry with exec=true whose fetch succeeded, the permission
\* change only adds bits: the resulting mode is the prior mode with the owner,
\* group and other execute bits set, every other bit is left as it was, and a
\* chmod that fails leaves the mode alone.
C14_ChmodOnlyAddsExecuteBits ==
    [][ pc = "exec" =>
          /\ entry.exec
          /\ ok
          /\ ok' => \A b \in 0..15 :
                      Bit(st_mode', b) <=> (Bit(st_mode, b) \/ b \in ExecuteBits)
          /\ ~ok' => st_mode' = st_mode ]_vars

\* A file written with mode rw------- has been made executable: rwx--x--x.
C14_Witness ==
    /\ InEntry
    /\ Event("chmod", 0) \in Range(effects)
    /\ fs[home_path(entry.path)] = "file"
    /\ Bit(st_mode, 6) /\ Bit(st_mode, 3) /\ Bit(st_mode, 0)
    /\ ~Bit(st_mode, 5) /\ ~Bit(st_mode, 2)

\* ------------------------------------------------------------- C15
\* The side effects of the chmod stage and of the run-after stage.
ChmodEvents == {Event("chmod", 0), Event("chmod raised", 0)}
RunEvents == {Event("run", k) : k \in 1..MaxCmds}

\* C15: the stages of a non-skipped entry come in the order fetch, chmod (only
\* if exec is set), run-after commands, state record with the autostart check,
\* and a failure at a stage is terminal: the commands run only after a fetch
\* and, when exec is set, a chmod that succeeded; a chmod failure makes the
\* entry a failure; the state and the autostart queue change only at the record.
C15_StagesInOrder ==
    [][ /\ (pc = "loop" /\ pc' \in {"exec", "post", "record"}) =>
             /\ pc' = "exec" => (ok' /\ entry.exec)
             /\ pc' = "post" => (ok' /\ ~entry.exec /\ entry.has_run_after)
             /\ ~ok' => pc' = "record"
             /\ Range(effects') \cap (ChmodEvents \cup RunEvents) = {}
        /\ pc = "exec" =>
             /\ ok /\ entry.exec
             /\ \E e \in ChmodEvents : effects' = Append(effects, e)
             /\ Event("chmod raised", 0) \in Range(effects') => (~ok' /\ pc' = "record")
             /\ pc' = "post" => (ok' /\ entry.has_run_after)
             /\ pc' \in {"post", "record"}
        /\ pc = "post" =>
             /\ ok
             /\ entry.exec => Event("chmod", 0) \in Range(effects)
             /\ Event("chmod raised", 0) \notin Range(effects)
             /\ effects' # effects => \E e \in RunEvents : effects' = Append(effects, e)
             /\ ~ok' => pc' = "record"
             /\ pc' \in {"post", "record"}
        /\ pc \in {"loop", "exec", "post"} =>
             /\ installed_state' = installed_state
             /\ autostart_instructions' = autostart_instructions
        /\ pc = "record" =>
             /\ pc' = "loop"
             /\ ok <=> entry.path \in installed_state'
             /\ autostart_instructions' # autostart_instructions =>
                  (ok /\ entry.autostart) ]_vars

\* An entry with exec and commands is at its record, every stage done in order.
C15_Witness ==
    /\ pc = "record"
    /\ ok
    /\ entry.autostart
    /\ Len(effects) >= 2 + MaxCmds
    /\ effects[Len(effects) - MaxCmds] = Event("chmod", 0)
    /\ effects[Len(effects)] = Event("run", MaxCmds)

\* ------------------------------------------------------------- C16
\* C16: for a non-skipped entry whose source is not git-based, an artifact
\* found at the destination is removed before the fetch is attempted and is not
\* restored when the fetch fails: after the failed entry nothing is at the
\* destination and the path is not in the state.
C16_StaleDestinationNotRestored ==
    [][ /\ ( /\ pc = "loop"
             /\ pc' \in {"exec", "post", "record"}
             /\ entry.source \notin GitSources
             /\ fs[home_path(entry.path)] # "absent" ) =>
               /\ effects'[1] = Event("remove", 0)
               /\ \A k \in 2..Len(effects') : effects'[k] # Event("remove", 0)
               /\ ~ok' => fs'[home_path(entry.path)] = "absent"
        /\ (pc = "record" /\ ~ok /\ entry.source \notin GitSources) =>
               /\ entry.path \notin installed_state'
               /\ Range(effects) \cap (ChmodEvents \cup RunEvents) = {} =>
                    fs[home_path(entry.path)] = "absent" ]_vars

\* A repo entry whose path was in the state found a directory at its
\* destination, removed it, and failed to download the file.
C16_Witness ==
    /\ pc = "record"
    /\ ~ok
    /\ entry.source = "repo"
    /\ entry.path \in loaded_state
    /\ effects = <<Event("remove", 0), Event("GET", 0)>>
    /\ fs[home_path(entry.path)] = "absent"

\* ------------------------------------------------------------- C17
\* The source kinds main() dispatches on.
KnownSources == {"repo", "git", "git-with-submodules", "external"}

\* The status text m has the word among its parts.
Names(m, word) == word \in Range(m.suffix) \/ word \in Range(m.output)

\* C17: an entry whose source kind is none of repo, git, git-with-submodules,
\* external fails without any fetch being attempted, the failure message that
\* is reported names the unrecognized kind, and the path is removed from the
\* state.
C17_UnknownSourceNamedInFailure ==
    [][ (pc = "record" /\ entry.source \notin KnownSources) =>
          /\ ~ok
          /\ idx \notin fetched
          /\ Range(effects) \subseteq {Event("remove", 0)}
          /\ entry.path \notin installed_state'
          /\ Names(msg, entry.source) ]_vars

\* What does hold for an entry of unrecognized kind: no fetch, a failure whose
\* text is the fixed "FAILED: Unknown source", the path discarded.
UnknownSourceFailsUnnamed ==
    [][ (pc = "record" /\ entry.source \notin KnownSources) =>
          /\ ~ok
          /\ idx \notin fetched
          /\ Range(effects) \subseteq {Event("remove", 0)}
          /\ entry.path \notin installed_state'
          /\ msg = Msg("FAILED: Unknown source", 0, 0, <<>>, <<>>, <<>>) ]_vars

\* ------------------------------------------------------------- C18
\* C18: every run-after command runs with the destination as its working
\* directory when the destination is a directory, and with the destination's
\* parent directory in every other case: a regular file, or nothing at the
\* destination after the fetch.
C18_WorkingDirectory ==
    [][ (pc = "post" /\ effects' # effects) =>
          cwd' = IF fs[home_path(entry.path)] \in {"dir", "git"}
                 THEN home_path(entry.path)
                 ELSE "/home/u" ]_vars

\* What does hold: the parent directory is used for a regular file only, and
\* a command whose working directory does not exist fails as "not found".
WorkingDirectoryOfTheCode ==
    [][ (pc = "post" /\ effects' # effects) =>
          /\ cwd' = IF fs[home_path(entry.path)] = "file"
                    THEN "/home/u"
                    ELSE home_path(entry.path)
          /\ fs[home_path(entry.path)] = "absent" =>
               (~ok' /\ msg'.text = "FAILED on task: command not found") ]_vars

\* ------------------------------------------------------------- C19
\* C19 as stated, its last part: the instruction of each queued script is
\* printed once.
C19_AsStated ==
    pc = "done" =>
        \A p \in Range(autostart_instructions) :
            Cardinality({k \in 1..Len(printed) : printed[k] = user_friendly_path(p)}) = 1

\* C19: the autostart instructions are deferred: none is printed before every
\* entry has been processed and the save of the state has been attempted; an
\* instruction is queued only by an entry with autostart=true that ended in
\* success in this run, never by a skipped or failed one, and whose script no
\* profile references; each queued instruction is printed once, in the order of
\* the queue, so a script queued by two entries is printed twice.
C19_InstructionsDeferred ==
    [][ /\ pc' # "done" => printed' = <<>>
        /\ printed' # printed =>
             (pc = "summary" /\ idx > total /\ Len(outcome) = total)
        /\ autostart_instructions' # autostart_instructions =>
             /\ pc = "record"
             /\ ok /\ entry.autostart
             /\ if_sourced' = "unsourced"
             /\ outcome' = Append(outcome, "ok")
             /\ autostart_instructions' =
                    Append(autostart_instructions, home_path(entry.path))
        /\ (pc = "record" /\ ok /\ entry.autostart /\ if_sourced' = "unsourced") =>
             autostart_instructions' # autostart_instructions
        /\ pc' = "done" =>
             /\ Len(printed') = Len(autostart_instructions)
             /\ \A k \in 1..Len(printed') :
                  printed'[k] = user_friendly_path(autostart_instructions[k]) ]_vars

\* Two scripts were queued and their instructions printed at the end.
C19_Witness ==
    /\ pc = "done"
    /\ printed = <<"~/.b", "~/.a">>
    /\ autostart_instructions = <<"/home/u/.b", "/home/u/.a">>

\* ------------------------------------------------------------- C20
\* How many of the entries handled so far ended as v.
Count(v) == Cardinality({k \in 1..Len(outcome) : outcome[k] = v})

\* C20: at every point of the loop skipped_count <= ok_count <= the number of
\* entries processed so far; ok_count is the number of skipped entries plus the
\* number of entries that ended in success, so at the end of a completed run
\* the reported failed count, total - ok_count, is the number of entries that
\* ended in failure.
C20_CountAccounting ==
    /\ skipped_count <= ok_count
    /\ ok_count <= Len(outcome)
    /\ skipped_count = Count("skip")
    /\ ok_count = Count("skip") + Count("ok")
    /\ pc \in {"summary", "done"} =>
         /\ Len(outcome) = total
         /\ total - ok_count = Count("fail")

\* A completed run of two entries has skipped one and failed the other.
C20_Witness ==
    /\ pc = "done"
    /\ outcome = <<"skip", "fail">>
    /\ ok_count = 1
    /\ skipped_count = 1
====
